---- MODULE Spec2Model ----
(***************************************************************************)
(* A model of build_calendars.py: one run of main(), from reading          *)
(* data/events.yaml to writing the seven feeds.                            *)
(*                                                                         *)
(* Time is counted in minutes of local wall clock since 2026-06-01T00:00.  *)
(* A datetime is a record: an aware one carries its UTC offset in minutes, *)
(* a naive one carries none.  The target zone is modelled by its summer    *)
(* offset; daylight-saving transitions are outside the model.              *)
(*                                                                         *)
(* A Python exception is modelled by a result record: Ok(v) is a normal    *)
(* return of v, Raised(e) an exception e leaving the function.  An         *)
(* exception nobody catches ends the process: err names it and no action   *)
(* is enabled any more.                                                    *)
(***************************************************************************)
EXTENDS Integers, Sequences, FiniteSets, TLC

\* ------------------------------------------------------------------ bounds
MaxSources == 2     \* the configuration lists at most this many sources
MaxItems == 3       \* records of one feed plus curated records of one category

\* --------------------------------------------------------- Python values
None == [tag |-> "None"]
Absent == [tag |-> "absent"]                 \* the key is not in the dict
Str(s) == [tag |-> "str", s |-> s]
Ok(v) == [ok |-> TRUE, val |-> v]
Raised(e) == [ok |-> FALSE, exc |-> e]

\* d.get(k): None when the key is missing
Get(v) == IF v = Absent THEN None ELSE v
\* d.get(k, default)
GetOr(v, default) == IF v = Absent THEN default ELSE v
\* bool(v) for the values an item field can hold: None and "" are falsy,
\* a datetime and a non-empty string are truthy
Truthy(v) == v \notin {None, Absent, Str("")}

\* ------------------------------------------------------------- datetimes
Days(n) == n * 1440
Hours(n) == n * 60

Aware(wall, off) == [tag |-> "aware", wall |-> wall, off |-> off]
Naive(wall) == [tag |-> "naive", wall |-> wall]
\* a date/time string: hasT is '"T" in s', valid is whether
\* datetime.fromisoformat accepts it, wall/tz/off what it then denotes
DtStr(hasT, valid, wall, tz, off) ==
    [tag |-> "dtstr", hasT |-> hasT, valid |-> valid, wall |-> wall, tz |-> tz, off |-> off]

IsDatetime(v) == v.tag \in {"aware", "naive"}
IsStr(v) == v.tag \in {"str", "dtstr"}

TZ == -300
\* the instant a datetime denotes, in minutes of UTC
Instant(dt) == dt.wall - dt.off
\* timedelta arithmetic keeps the zone
Plus(dt, minutes) == [dt EXCEPT !.wall = @ + minutes]

to_local(dt) ==
    IF dt.tag = "naive"
      THEN Aware(dt.wall, TZ)
      ELSE Aware(dt.wall - dt.off + TZ, TZ)

\* the instant main() was started (module import), environment
Now == Aware(Days(29) + Hours(12), TZ)
WINDOW_START == Plus(Now, 0 - Days(7))
WINDOW_END == Aware(Days(29) + Hours(23) + 59, TZ)

\* datetime.fromisoformat(s)
fromisoformat(s) ==
    IF ~s.valid THEN Raised("ValueError")
    ELSE Ok(IF s.tz THEN Aware(s.wall, s.off) ELSE Naive(s.wall))

\* d.replace(hour=0, minute=0, second=0)
Midnight(dt) == [dt EXCEPT !.wall = @ - (@ % 1440)]

parse_dt(s) ==
    LET r == fromisoformat(s) IN
    IF ~r.ok THEN r
    ELSE IF s.hasT THEN Ok(to_local(r.val))
    ELSE Ok(to_local(Midnight(r.val)))

\* dt.isoformat() of an aware datetime: date, time of day, offset
isoformat(dt) == <<dt.wall \div 1440, dt.wall % 1440, dt.off>>

\* ------------------------------------------------------------------ state
VARIABLES
    file,       \* data/events.yaml as the run finds it, and what each url serves
    seed,       \* the string-hash seed of this Python process, once it matters
    pc,         \* the step of main() the process is at
    err,        \* "none", or the uncaught exception that ended the process
    cfg,        \* main's cfg: NotLoaded, None (empty file) or the parsed mapping
    srcIdx,     \* fetch_from_sources: index of the next source
    scraped,    \* by_cat / scraped: category -> list of items
    cals,       \* cals: category -> events of that calendar
    master,     \* events of the master calendar
    site        \* the files written under site/

vars == <<file, seed, pc, err, cfg, srcIdx, scraped, cals, master, site>>

cats == <<"sports", "music", "conferences", "arts", "festivals", "specials">>
CatSet == {cats[i] : i \in 1..Len(cats)}

\* an item dict; a key the dict lacks holds Absent
Item(summary, start, end, location, description) ==
    [summary |-> summary, start |-> start, end |-> end,
     location |-> location, description |-> description]

\* ------------------------------------------------------------- add_event
\* hash() of a tuple holding strings: fixed within a process, and differing
\* between processes with the seed (string hashing is randomised per
\* process); collisions are outside the model
PyHashSeeded(s, t) == <<s, t>>

\* f"{hash((summary, start.isoformat(), (end.isoformat() if end else ''), location or ''))}@dfw"
Uid(sd, summary, start, end, location) ==
    PyHashSeeded(sd, <<summary,
                       isoformat(start),
                       IF Truthy(end) THEN isoformat(end) ELSE <<>>,
                       IF Truthy(location) THEN location.s ELSE "">>)

\* the filter with the lower comparison written <= instead of <
InWindowStrict(start) ==
    ~(Instant(start) <= Instant(WINDOW_START) \/ Instant(start) > Instant(WINDOW_END))

\* lines 43-44: 'start < WINDOW_START or start > WINDOW_END' returns early
InWindow(start) ==
    ~(Instant(start) < Instant(WINDOW_START) \/ Instant(start) > Instant(WINDOW_END))

\* the event with a one-day default for a start at midnight
NewEventDayLong(sd, summary, start, end, location, description) ==
    [summary |-> summary,
     dtstart |-> start,
     dtend |-> IF Truthy(end) THEN end
               ELSE IF start.wall % 1440 = 0 THEN Plus(start, Days(1))
               ELSE Plus(start, Hours(2)),
     location |-> IF Truthy(location) THEN location ELSE Absent,
     description |-> IF Truthy(description) THEN description ELSE Absent,
     uid |-> Uid(sd, summary, start, end, location)]

\* the event add_event builds for a start inside the window
NewEvent(sd, summary, start, end, location, description) ==
    [summary |-> summary,
     dtstart |-> start,
     dtend |-> IF Truthy(end) THEN end ELSE Plus(start, Hours(2)),
     location |-> IF Truthy(location) THEN location ELSE Absent,
     description |-> IF Truthy(description) THEN description ELSE Absent,
     uid |-> Uid(sd, summary, start, end, location)]

\* add_event(cal, ...) in a process of hash seed sd: the calendar
\* afterwards, or the exception raised.
\* An end that is a string (a curated end is never parsed) has no
\* isoformat(): building the uid raises.
add_event(sd, cal, summary, start, end, location, description) ==
    IF start = None THEN Ok(cal)
    ELSE IF ~InWindow(start) THEN Ok(cal)
    ELSE IF Truthy(end) /\ ~IsDatetime(end) THEN Raised("AttributeError@add_event")
    ELSE Ok(Append(cal, NewEvent(sd, summary, start, end, location, description)))

\* ---------------------------------------------------------------- dedupe
DedupeKey(it) == <<it.summary, isoformat(it.start), GetOr(it.location, Str(""))>>

\* the iteration with a slip: a duplicate takes its key out of seen again
DedupeToggleStep(st, it) ==
    LET key == DedupeKey(it) IN
    IF key \in st.seen
      THEN [seen |-> st.seen \ {key}, out |-> st.out]
      ELSE [seen |-> st.seen \cup {key}, out |-> Append(st.out, it)]

\* one iteration of dedupe's loop over st = [seen, out]
DedupeStep(st, it) ==
    LET key == DedupeKey(it) IN
    IF key \in st.seen
      THEN st
      ELSE [seen |-> st.seen \cup {key}, out |-> Append(st.out, it)]

RECURSIVE DedupeLoop(_, _, _)
DedupeLoop(items, i, st) ==
    IF i > Len(items) THEN Ok(st.out)
    ELSE IF items[i].start = Absent THEN Raised("KeyError@dedupe")
    ELSE IF ~IsDatetime(items[i].start) THEN Raised("AttributeError@dedupe")
    ELSE DedupeLoop(items, i + 1, DedupeStep(st, items[i]))

dedupe(items) == DedupeLoop(items, 1, [seen |-> {}, out |-> <<>>])

\* --------------------------------------------------- fetch_from_sources
KnownTypes == {"ics", "aac", "att_stadium", "livenation", "axs", "selector"}

\* lines 240-265: the extractor of the source's type run on its url, inside
\* the try; src.served is what that extractor does in this run.  Whatever
\* it raises is caught and the source yields no items, as does a type
\* without an extractor.
\* the dispatch without its final else: every type is run as if known
ExtractItemsAnyType(src) ==
    IF src.served.ok THEN src.served.val ELSE <<>>

ExtractItems(src) ==
    IF src.type \in KnownTypes
      THEN (IF src.served.ok THEN src.served.val ELSE <<>>)
      ELSE <<>>

\* 'if isinstance(it.get("start"), str): it["start"] = parse_dt(it["start"])'
\* followed by the append, over a list of items: the items appended before
\* the loop ended, and the exception that ended it ("none": it ran through)
RECURSIVE NormalizeLoop(_, _, _)
NormalizeLoop(items, i, out) ==
    IF i > Len(items) THEN [out |-> out, exc |-> "none"]
    ELSE IF IsStr(Get(items[i].start))
      THEN LET r == parse_dt(items[i].start) IN
           IF r.ok
             THEN NormalizeLoop(items, i + 1, Append(out, [items[i] EXCEPT !.start = r.val]))
             ELSE [out |-> out, exc |-> r.exc]
    ELSE NormalizeLoop(items, i + 1, Append(out, items[i]))

\* by_cat.get(cat, []).append(it) for every item: a category that is no key
\* of by_cat appends to a throwaway list
AppendTo(by_cat, cat, items) ==
    IF cat \in DOMAIN by_cat
      THEN [by_cat EXCEPT ![cat] = @ \o items]
      ELSE by_cat

\* main step 2 (lines 294-299) over the categories from k on
RECURSIVE CurateLoop(_, _, _)
CurateLoop(events, k, sc) ==
    IF k > Len(cats) THEN [scraped |-> sc, exc |-> "none"]
    ELSE LET n == NormalizeLoop(events[cats[k]], 1, <<>>)
             sc2 == AppendTo(sc, cats[k], n.out)
         IN IF n.exc = "none" THEN CurateLoop(events, k + 1, sc2)
            ELSE [scraped |-> sc2, exc |-> n.exc]

\* line 306 with a slip: an event master already holds (same summary and
\* start) is not added again
AddToMasterDeduped(sd, mas, it) ==
    IF \E j \in 1..Len(mas) :
          /\ mas[j].summary = it.summary
          /\ mas[j].dtstart = it.start
      THEN Ok(mas)
      ELSE add_event(sd, mas, it.summary, it.start, Get(it.end), Get(it.location), Get(it.description))

\* line 306
AddToMaster(sd, mas, it) ==
    add_event(sd, mas, it.summary, it.start, Get(it.end), Get(it.location), Get(it.description))

\* line 305
AddToCategory(sd, cal, it) ==
    add_event(sd, cal, it.summary, it.start, Get(it.end), Get(it.location), Get(it.description))

\* main step 3, lines 304-306, over the bucket from i on: the two calendars
\* afterwards and the exception that ended the loop, if any
RECURSIVE AssembleLoop(_, _, _, _, _)
AssembleLoop(sd, bucket, i, cal, mas) ==
    IF i > Len(bucket) THEN [cal |-> cal, master |-> mas, exc |-> "none"]
    ELSE LET c == AddToCategory(sd, cal, bucket[i]) IN
         IF ~c.ok THEN [cal |-> cal, master |-> mas, exc |-> c.exc]
         ELSE LET m == AddToMaster(sd, mas, bucket[i]) IN
              IF ~m.ok THEN [cal |-> c.val, master |-> mas, exc |-> m.exc]
              ELSE AssembleLoop(sd, bucket, i + 1, c.val, m.val)

\* main step 3, lines 302-306, over the categories from k on: all calendars
\* afterwards and the exception that ended the loop, if any
RECURSIVE AssembleCats(_, _, _, _, _)
AssembleCats(sd, sc, k, cs, mas) ==
    IF k > Len(cats) THEN [cals |-> cs, master |-> mas, exc |-> "none"]
    ELSE LET b == dedupe(sc[cats[k]]) IN
         IF ~b.ok THEN [cals |-> cs, master |-> mas, exc |-> b.exc]
         ELSE LET r == AssembleLoop(sd, b.val, 1, cs[cats[k]], mas)
                  cs2 == [cs EXCEPT ![cats[k]] = r.cal]
              IN IF r.exc # "none"
                   THEN [cals |-> cs2, master |-> r.master, exc |-> r.exc]
                   ELSE AssembleCats(sd, sc, k + 1, cs2, r.master)

\* ---------------------------------------------------------------- inputs
NotLoaded == [tag |-> "NotLoaded"]
Dict(sources, events) == [tag |-> "dict", sources |-> sources, events |-> events]
FeedNames == {"sports.ics", "music.ics", "conferences.ics", "arts.ics",
              "festivals.ics", "specials_worldcup.ics", "master.ics"}
HashSeeds == {0, 1}
\* before the first hash() of a string the seed shows nowhere
NoSeed == 0 - 1

SeqsUpTo(S, n) == UNION {[1..k -> S] : k \in 0..n}
NoEvents == [c \in CatSet |-> <<>>]

At(wall) == Aware(wall, TZ)
MidWall == Days(24) + Hours(19)
\* starts a feed's extractor hands over: around both window bounds, inside
\* the window, and None for a VEVENT without DTSTART
IcsStarts == {None, At(WINDOW_START.wall - 1), WINDOW_START, At(MidWall),
              WINDOW_END, At(WINDOW_END.wall + 1)}
X == Item("a", At(MidWall), None, Str("v"), Str("d1"))
Y == Item("b", At(MidWall), None, Str("v"), Str("d1"))
IcsCands ==
    {Item("a", s, None, Str("v"), Str("d1")) : s \in IcsStarts}
    \cup {Y,
          Item("a", At(MidWall), None, Str("v"), Str("d2")),
          Item("a", At(MidWall), None, None, Str("d1"))}
    \cup {Item("a", At(MidWall), e, Str("v"), Str("d1")) :
             e \in {At(MidWall - 60), At(MidWall + 60)}}

\* curated starts as the YAML holds them
IsoMid == DtStr(TRUE, TRUE, MidWall, FALSE, 0)          \* "2026-06-25T19:00"
IsoMidUtc == DtStr(TRUE, TRUE, MidWall - TZ, TRUE, 0)   \* "2026-06-26T00:00+00:00"
BareDate == DtStr(FALSE, TRUE, Days(24), FALSE, 0)      \* "2026-06-25"
SpaceSep == DtStr(FALSE, TRUE, MidWall, FALSE, 0)       \* "2026-06-25 19:00"
NotADate == DtStr(FALSE, FALSE, 0, FALSE, 0)            \* "not-a-date"
CurCands ==
    {Item("a", s, Absent, Str("v"), Str("d3")) :
        s \in {IsoMid, IsoMidUtc, BareDate, SpaceSep, NotADate, Absent}}
    \cup {Item("a", IsoMid, Absent, Absent, Absent),
          Item("a", IsoMid, DtStr(TRUE, TRUE, MidWall + 60, FALSE, 0), Str("v"), Absent)}

Source(type, category, served) == [type |-> type, category |-> category, served |-> served]
SrcShapes ==
    {Source("ics", c, r) : c \in {"sports", "music", "other"},
                           r \in {Raised("HTTPError"), Ok(<<X>>), Ok(<<X, Y>>)}}
    \cup {Source("selector", c, r) : c \in {"sports", "music", "other"},
                                     r \in {Raised("ConnectionError"), Ok(<<Y>>)}}
    \cup {Source("rss", c, Ok(<<Y>>)) : c \in {"sports", "music", "other"}}

\* configurations that vary the sources
RoutingFiles ==
    {[state |-> "ok", sources |-> ss, events |-> NoEvents] :
        ss \in SeqsUpTo(SrcShapes, MaxSources)}
\* configurations that vary the records of one category
ItemFiles ==
    {[state |-> "ok",
      sources |-> <<Source("ics", "sports", Ok(p[1]))>>,
      events |-> [NoEvents EXCEPT !["sports"] = p[2]]] :
        p \in UNION {[1..k -> IcsCands] \X SeqsUpTo(CurCands, MaxItems - k) :
                        k \in 0..MaxItems}}
\* no usable configuration file
BrokenFiles ==
    {[state |-> st, sources |-> <<>>, events |-> NoEvents] :
        st \in {"missing", "invalid", "empty"}}

Init ==
    /\ file \in RoutingFiles \cup ItemFiles \cup BrokenFiles
    /\ seed = NoSeed
    /\ pc = "load"
    /\ err = "none"
    /\ cfg = NotLoaded
    /\ srcIdx = 1
    /\ scraped = [c \in CatSet |-> <<>>]
    /\ cals = [c \in CatSet |-> <<>>]
    /\ master = <<>>
    /\ site = [f \in FeedNames |-> [written |-> FALSE, events |-> <<>>]]

\* --------------------------------------------------------------- actions
\* line 285: read and parse data/events.yaml
LoadConfig ==
    /\ pc = "load" /\ err = "none"
    /\ IF file.state = "missing" THEN err' = "FileNotFoundError@main" /\ UNCHANGED <<cfg, pc>>
       ELSE IF file.state = "invalid" THEN err' = "YAMLError@main" /\ UNCHANGED <<cfg, pc>>
       ELSE IF file.state = "empty" THEN cfg' = None /\ pc' = "fetch" /\ UNCHANGED err
       ELSE cfg' = Dict(file.sources, file.events) /\ pc' = "fetch" /\ UNCHANGED err
    /\ UNCHANGED <<file, seed, srcIdx, scraped, cals, master, site>>

\* one iteration of fetch_from_sources' loop over the sources (lines
\* 236-270), or its return when the sources are exhausted
FetchSource ==
    /\ pc = "fetch" /\ err = "none"
    /\ IF cfg = None
         THEN err' = "AttributeError@fetch_from_sources"
              /\ UNCHANGED <<pc, srcIdx, scraped>>
       ELSE IF srcIdx > Len(cfg.sources)
         THEN pc' = "curate" /\ UNCHANGED <<err, srcIdx, scraped>>
       ELSE LET src == cfg.sources[srcIdx]
                n == NormalizeLoop(ExtractItems(src), 1, <<>>)
            IN /\ scraped' = AppendTo(scraped, src.category, n.out)
               /\ IF n.exc = "none"
                    THEN srcIdx' = srcIdx + 1 /\ UNCHANGED err
                    ELSE err' = n.exc \o "@parse_dt" /\ UNCHANGED srcIdx
               /\ UNCHANGED pc
    /\ UNCHANGED <<file, seed, cfg, cals, master, site>>

\* main step 2: the curated items of every category
AddCurated ==
    /\ pc = "curate" /\ err = "none"
    /\ LET r == CurateLoop(cfg.events, 1, scraped) IN
       /\ scraped' = r.scraped
       /\ IF r.exc = "none"
            THEN pc' = "assemble" /\ UNCHANGED err
            ELSE err' = r.exc \o "@parse_dt" /\ UNCHANGED pc
    /\ UNCHANGED <<file, seed, cfg, srcIdx, cals, master, site>>

\* main step 3: every category is deduplicated and added to its calendar
\* and to master.  The interpreter drew its hash seed at start-up; it
\* shows for the first time here, in the uids.
Assemble ==
    /\ pc = "assemble" /\ err = "none"
    /\ \E sd \in HashSeeds :
          LET r == AssembleCats(sd, scraped, 1, cals, master) IN
          /\ seed' = sd
          /\ cals' = r.cals
          /\ master' = r.master
          /\ IF r.exc = "none"
               THEN pc' = "write" /\ UNCHANGED err
               ELSE err' = r.exc /\ UNCHANGED pc
    /\ UNCHANGED <<file, cfg, srcIdx, scraped, site>>

FeedOf(f) ==
    IF f = "master.ics" THEN master
    ELSE IF f = "specials_worldcup.ics" THEN cals["specials"]
    ELSE CHOOSE ev \in {cals[c] : c \in {k \in CatSet : k \o ".ics" = f}} : TRUE

\* main step 4: every feed is rewritten
WriteFeeds ==
    /\ pc = "write" /\ err = "none"
    /\ site' = [f \in FeedNames |-> [written |-> TRUE, events |-> FeedOf(f)]]
    /\ pc' = "done"
    /\ UNCHANGED <<file, seed, err, cfg, srcIdx, scraped, cals, master>>

Next == LoadConfig \/ FetchSource \/ AddCurated \/ Assemble \/ WriteFeeds

Spec == Init /\ [][Next]_vars

\* ------------------------------------------------------------ properties
Loaded == cfg.tag = "dict"
\* main step 3 ran through: every category is in its calendar
Assembled(c) == pc \in {"write", "done"}
Range(q) == {q[k] : k \in 1..Len(q)}
AllEvents == Range(master) \cup UNION {Range(cals[c]) : c \in CatSet}

\* what the first n sources owe category c: the records of every source of
\* that category whose type has an extractor and whose extractor returned
RECURSIVE Owed(_, _, _)
Owed(sources, n, c) ==
    IF n = 0 THEN <<>>
    ELSE Owed(sources, n - 1, c) \o
         (IF /\ sources[n].category = c
             /\ sources[n].type \in KnownTypes
             /\ sources[n].served.ok
            THEN sources[n].served.val
            ELSE <<>>)

\* C1: while and after the sources are processed, no source has ended the
\* run, and each category's list holds exactly the records returned by the
\* sources of that category processed so far, in source order; a source
\* whose extractor raised or whose type is unknown contributed nothing.
C1_RouterSurvivesBadSources ==
    /\ (Loaded /\ pc = "fetch") =>
          /\ err = "none"
          /\ \A c \in CatSet : scraped[c] = Owed(cfg.sources, srcIdx - 1, c)
    /\ (Loaded /\ pc = "curate" /\ err = "none") =>
          \A c \in CatSet : scraped[c] = Owed(cfg.sources, Len(cfg.sources), c)

\* the first source failed, the second delivered, and its records are in
C1_Witness ==
    /\ Loaded /\ pc = "curate" /\ err = "none"
    /\ Len(cfg.sources) = 2
    /\ cfg.sources[1].type \in KnownTypes /\ ~cfg.sources[1].served.ok
    /\ cfg.sources[2].type \in KnownTypes /\ cfg.sources[2].served.ok
    /\ cfg.sources[2].category = "music"
    /\ scraped["music"] = cfg.sources[2].served.val
    /\ Len(scraped["music"]) = 2

StartErrors == {"ValueError@parse_dt", "AttributeError@dedupe", "KeyError@dedupe"}

\* C2: a candidate whose start cannot be resolved (a malformed date string,
\* or no start at all) never ends the run: the process does not die of the
\* failed parse nor of the missing start.
C2_UnresolvableStartNeverAborts == err \notin StartErrors

\* the claim's key: summary, start instant, and the location the candidate
\* has (a candidate without one has none, however the dict says so)
ClaimKey(it) ==
    <<it.summary, Instant(it.start), IF Truthy(it.location) THEN it.location ELSE None>>
KeepFirstOfEachGroup(L) ==
    SelectSeq([k \in 1..Len(L) |-> [i |-> k, it |-> L[k]]],
              LAMBDA e : \A j \in 1..(e.i - 1) : ClaimKey(L[j]) # ClaimKey(e.it))
Items(es) == [k \in 1..Len(es) |-> es[k].it]

\* C3: of every group of candidates of a category with identical (summary,
\* start instant, location), dedupe keeps exactly the earliest, and keeps
\* every candidate that differs in one of the three, in the original order.
C3_DedupeKeepsFirstOfEachGroup ==
    \A c \in CatSet :
        dedupe(scraped[c]).ok =>
            dedupe(scraped[c]).val = Items(KeepFirstOfEachGroup(scraped[c]))

\* the event of bucket item it is in category c's calendar
Emitted(c, it) ==
    \E e \in Range(cals[c]) : e.summary = it.summary /\ e.dtstart = it.start

\* C4 (as amended): both window bounds are inclusive: a deduplicated record
\* of an assembled category is emitted exactly when
\* WINDOW_START <= start <= WINDOW_END.
C4_WindowInclusiveAtBothEnds ==
    \A c \in CatSet :
        Assembled(c) =>
            \A it \in Range(dedupe(scraped[c]).val) :
                Emitted(c, it) <=>
                    /\ Instant(WINDOW_START) <= Instant(it.start)
                    /\ Instant(it.start) <= Instant(WINDOW_END)

\* C4 (as claimed): the lower bound is strict: a record is emitted exactly
\* when WINDOW_START < start <= WINDOW_END.
C4_StrictLowerBound ==
    \A c \in CatSet :
        Assembled(c) =>
            \A it \in Range(dedupe(scraped[c]).val) :
                Emitted(c, it) <=>
                    /\ Instant(WINDOW_START) < Instant(it.start)
                    /\ Instant(it.start) <= Instant(WINDOW_END)

\* records at both bounds and just outside them went through, and the ones
\* at the bounds were emitted
C4_Witness ==
    /\ Assembled("sports")
    /\ \E e \in Range(cals["sports"]) : e.dtstart = WINDOW_START
    /\ \E it \in Range(scraped["sports"]) :
          it.start \in {WINDOW_END, At(WINDOW_START.wall - 1), At(WINDOW_END.wall + 1)}

\* C5: every event in a category calendar or in master ends no earlier than
\* it starts.
C5_EndNotBeforeStart ==
    \A e \in AllEvents : Instant(e.dtend) >= Instant(e.dtstart)

IsBareDate(v) == v.tag = "dtstr" /\ v.valid /\ ~v.hasT /\ v.wall % 1440 = 0
\* the item main appended for the k-th curated record of category c
CuratedItem(c, k) == scraped[c][Len(scraped[c]) - Len(file.events[c]) + k]
FirstOfItsKey(c, k) ==
    LET n == Len(scraped[c]) - Len(file.events[c]) + k IN
    \A j \in 1..(n - 1) : DedupeKey(scraped[c][j]) # DedupeKey(scraped[c][n])
\* curated record k of category c is a bare date without an end, and it is
\* the record dedupe keeps for its key
BareDateCase(c, k) ==
    /\ IsBareDate(Get(file.events[c][k].start))
    /\ Get(file.events[c][k].end) = None
    /\ FirstOfItsKey(c, k)
    /\ InWindow(At(file.events[c][k].start.wall))

RECURSIVE Flatten(_)
Flatten(n) == IF n = 0 THEN <<>> ELSE Flatten(n - 1) \o cals[cats[n]]
RECURSIVE TotalSize(_)
TotalSize(n) == IF n = 0 THEN 0 ELSE TotalSize(n - 1) + Len(cals[cats[n]])

\* C7: master holds exactly the events of the six category calendars, each
\* as often as the categories hold it: its size is the sum of their sizes,
\* and it is their concatenation in category order.
C7_MasterIsAllCategories ==
    /\ master = Flatten(Len(cats))
    /\ Len(master) = TotalSize(Len(cats))
    /\ Range(master) = UNION {Range(cals[c]) : c \in CatSet}

\* a feed of two entries and a curated record equal to one of them: the
\* category ends with 2 events and so does master
C7_Witness ==
    /\ pc = "done"
    /\ Len(file.sources) = 1 /\ file.sources[1].served.ok
    /\ Len(file.sources[1].served.val) = 2
    /\ Len(file.events["sports"]) = 1
    /\ Len(cals["sports"]) = 2
    /\ Len(master) = 2

\* the tuple a uid is the hash of
HashedTuple(uid) == uid[2]

\* C8: the uid of an emitted event depends on (summary, start, end,
\* location) alone: a process with any other hash seed gives the same
\* tuple the same uid.
C8_UidSameInEveryProcess ==
    \A e \in AllEvents : \A s \in HashSeeds :
        e.uid = PyHashSeeded(s, HashedTuple(e.uid))

\* C9: with the configuration file missing, empty or invalid, the run is
\* not ended by an exception.
C9_BrokenConfigNeverAborts == file.state # "ok" => err = "none"

\* C10: dedupe applied to its own output returns it unchanged.
C10_DedupeIdempotent ==
    \A c \in CatSet :
        dedupe(scraped[c]).ok =>
            dedupe(dedupe(scraped[c]).val) = dedupe(scraped[c])

\* a category list of three records of which dedupe removes two
C10_Witness ==
    /\ Len(scraped["sports"]) = 3
    /\ dedupe(scraped["sports"]).ok
    /\ Len(dedupe(scraped["sports"]).val) = 1

====
